---- MODULE Spec2Model ----
(***************************************************************************)
(* Model of src/test-integration.ts: the IntegrationTester harness of the  *)
(* nano-banana MCP server.  One orchestrator (runAllTests) runs five       *)
(* checks in sequence, every check appends Results to the Result Log       *)
(* (this.results), and printResults derives the process exit code.         *)
(*                                                                         *)
(* Strings that the code builds by interpolation are modelled as sequences *)
(* of fragments: `Project structure - ${file}` is <<"Project structure -   *)
(* ", file>>.  The file system, the manifest text, the build child and the *)
(* source text are the environment; they are drawn nondeterministically.   *)
(***************************************************************************)
EXTENDS Integers, Sequences, FiniteSets, TLC

(***************************************************************************)
(* Bounds of the model.                                                    *)
(***************************************************************************)
\* how many departures from the fully valid project one run may combine
MaxDeviations == 3
\* how many data chunks the build child may write on each of its streams
MaxChunks == 1
\* the same for the runs checked for progress
MaxFairDeviations == 2

(***************************************************************************)
(* Fixed lists of the program.                                             *)
(***************************************************************************)
requiredFiles ==
  <<"package.json", "tsconfig.json", "src/index.ts", "README.md", ".gitignore", ".eslintrc.json">>

requiredDeps ==
  <<"@modelcontextprotocol/sdk", "@google/generative-ai", "dotenv", "zod">>

requiredElements ==
  <<"configure_gemini_token", "generate_image", "edit_image", "get_configuration_status", "GoogleGenerativeAI", "gemini-3-pro-image-preview">>

mimeAlternatives ==
  <<"getMimeType", "image/jpeg", "image/png">>

configPath == ".nano-banana-config-test.json"

Range(s) == {s[i] : i \in DOMAIN s}

(***************************************************************************)
(* JSON values, JSON text, JSON.stringify and JSON.parse.                  *)
(* A value is a tagged record; a text is a sequence of tokens.             *)
(***************************************************************************)
JNull == [t |-> "null"]
JUndefined == [t |-> "undefined"]
JStr(s) == [t |-> "str", s |-> s]
JObj(m) == [t |-> "obj", m |-> m]

Tok(k, v) == [k |-> k, v |-> v]

RECURSIVE JoinMembers(_, _, _)
RECURSIVE JSONstringify(_, _)
\* the members of object map m restricted to the keys ks, comma separated
JoinMembers(m, ks, indent) ==
  IF ks = {} THEN <<>>
  ELSE LET key == CHOOSE x \in ks : TRUE
           rest == ks \ {key}
           ws == IF indent > 0 THEN <<Tok("ws", "")>> ELSE <<>>
           one == ws \o <<Tok("str", key), Tok(":", "")>> \o ws \o JSONstringify(m[key], indent)
       IN IF rest = {} THEN one
          ELSE one \o <<Tok(",", "")>> \o JoinMembers(m, rest, indent)

\* JSON.stringify(value, null, indent)
JSONstringify(v, indent) ==
  IF v.t = "null" THEN <<Tok("null", "")>>
  ELSE IF v.t = "str" THEN <<Tok("str", v.s)>>
  ELSE IF DOMAIN v.m = {} THEN <<Tok("{", ""), Tok("}", "")>>
  ELSE <<Tok("{", "")>> \o JoinMembers(v.m, DOMAIN v.m, indent)
         \o (IF indent > 0 THEN <<Tok("ws", "")>> ELSE <<>>) \o <<Tok("}", "")>>

ParseFail == [ok |-> FALSE, v |-> JUndefined, next |-> 0]

RECURSIVE ParseValue(_, _)
RECURSIVE ParseMembers(_, _, _)
\* parse one value of ts starting at position i
ParseValue(ts, i) ==
  IF i > Len(ts) THEN ParseFail
  ELSE IF ts[i].k = "null" THEN [ok |-> TRUE, v |-> JNull, next |-> i + 1]
  ELSE IF ts[i].k = "str" THEN [ok |-> TRUE, v |-> JStr(ts[i].v), next |-> i + 1]
  ELSE IF ts[i].k = "{" THEN
    IF i + 1 <= Len(ts) /\ ts[i + 1].k = "}"
    THEN [ok |-> TRUE, v |-> JObj(<<>>), next |-> i + 2]
    ELSE ParseMembers(ts, i + 1, <<>>)
  ELSE ParseFail

\* parse `"key": value` pairs up to the closing brace; m holds the pairs so far
ParseMembers(ts, i, m) ==
  IF i + 1 > Len(ts) \/ ts[i].k # "str" \/ ts[i + 1].k # ":" THEN ParseFail
  ELSE LET r == ParseValue(ts, i + 2)
       IN IF ~r.ok THEN ParseFail
          ELSE LET key == ts[i].v
                   m2 == [x \in (DOMAIN m) \cup {key} |-> IF x = key THEN r.v ELSE m[x]]
               IN IF r.next > Len(ts) THEN ParseFail
                  ELSE IF ts[r.next].k = "}" THEN [ok |-> TRUE, v |-> JObj(m2), next |-> r.next + 1]
                  ELSE IF ts[r.next].k = "," THEN ParseMembers(ts, r.next + 1, m2)
                  ELSE ParseFail

IsNotWs(tok) == tok.k # "ws"

\* JSON.parse(text): [ok |-> FALSE] stands for a thrown SyntaxError
JSONparse(text) ==
  LET ts == SelectSeq(text, IsNotWs)
      r == ParseValue(ts, 1)
  IN IF r.ok /\ r.next = Len(ts) + 1 THEN [ok |-> TRUE, v |-> r.v] ELSE [ok |-> FALSE, v |-> JUndefined]

\* value[key] throws a TypeError on null and undefined
GetThrows(v) == v.t \in {"null", "undefined"}

\* value[key] where it does not throw
Get(v, key) ==
  IF v.t = "obj" /\ key \in DOMAIN v.m THEN v.m[key] ELSE JUndefined

\* JavaScript truthiness of a JSON value
Truthy(v) ==
  IF v.t = "str" THEN v.s # "" ELSE v.t = "obj"

(***************************************************************************)
(* Results and the Result Log.  The glyphs of the messages are written     *)
(* "(ok) " for the check mark and "(x) " for the cross.                    *)
(***************************************************************************)
TestResult(name, passed, message) == [name |-> name, passed |-> passed, message |-> message]

\* this.results.unshift({ name, passed, message })
addResultFront(log, name, passed, message) == <<TestResult(name, passed, message)>> \o log

\* this.results.push({ name, passed, message })
addResult(log, name, passed, message) == Append(log, TestResult(name, passed, message))

\* String.prototype.includes on a text of fragments
includes(text, element) == \E i \in DOMAIN text : text[i] = element

(***************************************************************************)
(* The environment: what the project directory may hold.                   *)
(***************************************************************************)
ProjectPaths == Range(requiredFiles) \cup {"node_modules"}

\* the synthetic configuration object of testConfigurationHandling
testConfig == JObj([geminiApiKey |-> JStr("test-api-key-for-integration-testing")])

\* a manifest "dependencies" object: every name is absent, maps to "" or to a version
DepAssignments == [Range(requiredDeps) -> {"absent", "empty", "version"}]

DepsObject(a) ==
  JObj([d \in {x \in Range(requiredDeps) : a[x] # "absent"} |->
          JStr(IF a[d] = "empty" THEN "" ELSE "^1.0.0")])

ManifestOf(deps) == JObj([name |-> JStr("nano-banana-mcp"), dependencies |-> deps])

DepCost(a) == Cardinality({x \in Range(requiredDeps) : a[x] # "version"})

DropLast(text) == SubSeq(text, 1, Len(text) - 1)

\* manifest texts the file may hold, each with the number of its departures
\* from the valid manifest
ManifestTexts ==
  {[text |-> JSONstringify(ManifestOf(DepsObject(a)), 2), cost |-> DepCost(a)] : a \in DepAssignments}
  \cup {[text |-> JSONstringify(v, 2), cost |-> 1] :
          v \in {JNull, JStr("manifest"), JObj([name |-> JStr("nano-banana-mcp")]),
                 ManifestOf(JNull), ManifestOf(JStr("none"))}}
  \cup {[text |-> DropLast(JSONstringify(ManifestOf(DepsObject([d \in Range(requiredDeps) |-> "version"])), 2)),
         cost |-> 1],
        [text |-> <<>>, cost |-> 1]}

\* the text of src/index.ts with every fragment present
validSource ==
  <<"import">> \o requiredElements \o mimeAlternatives \o <<"server.connect">>

SourceFragments == Range(requiredElements) \cup Range(mimeAlternatives)

\* the source text without the fragments of missing
SourceWithout(missing) ==
  LET Keep(x) == x \notin missing IN SelectSeq(validSource, Keep)

\* what a tampered synthetic config file may hold when it is read back
TamperedConfigs ==
  {DropLast(JSONstringify(testConfig, 2)),
   JSONstringify(JNull, 2),
   JSONstringify(JObj([geminiApiKey |-> JStr("another-key")]), 2),
   JSONstringify(JObj(<<>>), 2),
   JSONstringify(JObj([geminiApiKey |-> JStr("test-api-key-for-integration-testing"),
                       model |-> JStr("gemini")]), 2)}

\* process exit code null of a child killed by a signal
NullCode == -1
ExitCodes == {0, 1, NullCode}

StdoutChunks == {"tsc: compiled"}
StderrChunks == {"error TS2304"}

(***************************************************************************)
(* State.                                                                  *)
(***************************************************************************)
VARIABLES
  pc,            \* position of runAllTests
  results,       \* this.results, the Result Log
  accessible,    \* the paths fs.access succeeds on
  fileIdx,       \* loop position in testProjectStructure
  packageJson,   \* the parsed manifest of testDependencies
  depIdx,        \* loop position over requiredDeps
  child,         \* the build child: "none", "running", "failed", "closed"
  output,        \* stdout chunks collected by the Build Runner
  errorOutput,   \* stderr chunks collected by the Build Runner
  closeCode,     \* the code argument of the close event
  hpc,           \* position of the close handler: "idle", "entered", "probing", "done"
  resolved,      \* whether the promise of testBuildProcess is resolved
  diskConfig,    \* content of the synthetic config file
  configWritten, \* whether writeFile of the synthetic config succeeded in this run
  sourceCode,    \* the text read by testToolSchema
  elemIdx,       \* loop position over requiredElements
  printed,       \* the summary printed by printResults, -1/-1 before it runs
  exitCode,      \* exit code of the process, NullCode while it runs
  parsedConfig,  \* the value JSON.parse returned for the read-back config
  configFault,   \* the file system operation of the config check that raised a fault, or "none"
  deviations,    \* departures from the valid project met so far
  budget         \* how many departures this run may meet

vars == <<pc, results, accessible, fileIdx, packageJson, depIdx, child, output, errorOutput,
          closeCode, hpc, resolved, diskConfig, configWritten, sourceCode, elemIdx, printed,
          exitCode, parsedConfig, configFault, deviations, budget>>

Remaining == budget - deviations

\* runAllTests with the build awaited after the config check
checkOrderSwapped == <<"structure", "dependencies", "config", "build", "schema", "report">>

\* the order of the awaits in runAllTests, ending in printResults
checkOrder == <<"structure", "dependencies", "build", "config", "schema", "report">>

\* the first position of every check
EntryPc(check) ==
  CASE check = "structure" -> "structure"
    [] check = "dependencies" -> "deps_read"
    [] check = "build" -> "build_spawn"
    [] check = "config" -> "config_write"
    [] check = "schema" -> "schema_read"
    [] check = "report" -> "report"

\* where runAllTests continues when check returns
AfterCheck(check) ==
  LET i == CHOOSE k \in DOMAIN checkOrder : checkOrder[k] = check
  IN EntryPc(checkOrder[i + 1])

\* the state after construction, in an environment with at most b departures
InitWith(b) ==
  /\ pc = EntryPc(checkOrder[1])
  /\ results = <<>>
  /\ budget = b
  /\ accessible \in {s \in SUBSET ProjectPaths : Cardinality(ProjectPaths \ s) <= b}
  /\ deviations = Cardinality(ProjectPaths \ accessible)
  /\ fileIdx = 1
  /\ packageJson = JUndefined
  /\ depIdx = 1
  /\ child = "none"
  /\ output = <<>>
  /\ errorOutput = <<>>
  /\ closeCode = NullCode
  /\ hpc = "idle"
  /\ resolved = FALSE
  /\ diskConfig = <<>>
  /\ configWritten = FALSE
  /\ sourceCode = <<>>
  /\ elemIdx = 1
  /\ printed = [passed |-> -1, total |-> -1]
  /\ exitCode = NullCode
  /\ configFault = "none"
  /\ parsedConfig = JUndefined

Init == InitWith(MaxDeviations)

(***************************************************************************)
(* testProjectStructure                                                    *)
(***************************************************************************)
\* the Result of one iteration of the loop over requiredFiles
StructureResult(file, ok) ==
  IF ok THEN TestResult(<<"Project structure - ", file>>, TRUE, <<"(ok) ", file, " exists">>)
  ELSE TestResult(<<"Project structure - ", file>>, FALSE, <<"(x) ", file, " missing">>)

\* a loop that stops at the first missing file
StructureStopsOnMissing(ok) == ok

\* whether the loop goes on to the next file after an iteration
StructureContinues(ok) == TRUE

ProbeFile ==
  /\ pc = "structure"
  /\ LET file == requiredFiles[fileIdx]
         ok == file \in accessible
         last == fileIdx = Len(requiredFiles) \/ ~StructureContinues(ok)
     IN /\ results' = Append(results, StructureResult(file, ok))
        /\ fileIdx' = IF last THEN fileIdx ELSE fileIdx + 1
        /\ pc' = IF last THEN AfterCheck("structure") ELSE pc
  /\ UNCHANGED <<budget, parsedConfig, configFault, accessible, packageJson, depIdx, child, output, errorOutput, closeCode, hpc,
                 resolved, diskConfig, configWritten, sourceCode, elemIdx, printed, exitCode,
                 deviations>>

(***************************************************************************)
(* testDependencies                                                        *)
(***************************************************************************)
\* the catch block of testDependencies
DependenciesCaught(log, error) ==
  addResult(log, <<"Dependencies check">>, FALSE, <<"(x) Failed to check dependencies: ", error>>)

\* packageJson?.dependencies?.[dep]: never throws
DepLookupOptional(pj, dep) ==
  IF GetThrows(pj) \/ GetThrows(Get(pj, "dependencies"))
  THEN [throws |-> FALSE, value |-> JUndefined]
  ELSE [throws |-> FALSE, value |-> Get(Get(pj, "dependencies"), dep)]

\* packageJson.dependencies[dep]: throws, or yields a value
DepLookup(pj, dep) ==
  IF GetThrows(pj) \/ GetThrows(Get(pj, "dependencies"))
  THEN [throws |-> TRUE, value |-> JUndefined]
  ELSE [throws |-> FALSE, value |-> Get(Get(pj, "dependencies"), dep)]

\* the Result of one iteration of the loop over requiredDeps
DependencyResult(dep, found) ==
  IF found THEN TestResult(<<"Dependencies - ", dep>>, TRUE, <<"(ok) ", dep, " found">>)
  ELSE TestResult(<<"Dependencies - ", dep>>, FALSE, <<"(x) ", dep, " missing">>)

\* the Result of the node_modules probe
NodeModulesResult(ok) ==
  IF ok THEN TestResult(<<"Dependencies - node_modules">>, TRUE, <<"(ok) Dependencies installed">>)
  ELSE TestResult(<<"Dependencies - node_modules">>, FALSE, <<"(x) Run npm install first">>)

\* fs.readFile of package.json raises a fault
ReadManifestFault ==
  /\ pc = "deps_read"
  /\ \/ /\ "package.json" \notin accessible
        /\ results' = DependenciesCaught(results, "Error: ENOENT")
        /\ UNCHANGED deviations
     \/ /\ "package.json" \in accessible
        /\ Remaining >= 1
        /\ results' = DependenciesCaught(results, "Error: EACCES")
        /\ deviations' = deviations + 1
  /\ pc' = AfterCheck("dependencies")
  /\ UNCHANGED <<budget, parsedConfig, configFault, accessible, fileIdx, packageJson, depIdx, child, output, errorOutput, closeCode,
                 hpc, resolved, diskConfig, configWritten, sourceCode, elemIdx, printed, exitCode>>

\* fs.readFile of package.json succeeds and JSON.parse runs on the text
ReadManifest ==
  /\ pc = "deps_read"
  /\ "package.json" \in accessible
  /\ \E mt \in ManifestTexts :
       /\ mt.cost <= Remaining
       /\ deviations' = deviations + mt.cost
       /\ LET parsed == JSONparse(mt.text)
          IN IF parsed.ok
             THEN /\ packageJson' = parsed.v
                  /\ depIdx' = 1
                  /\ pc' = "deps_loop"
                  /\ UNCHANGED results
             ELSE /\ results' = DependenciesCaught(results, "SyntaxError")
                  /\ pc' = AfterCheck("dependencies")
                  /\ UNCHANGED <<packageJson, depIdx>>
  /\ UNCHANGED <<budget, parsedConfig, configFault, accessible, fileIdx, child, output, errorOutput, closeCode, hpc, resolved,
                 diskConfig, configWritten, sourceCode, elemIdx, printed, exitCode>>

\* one iteration of the loop over requiredDeps
CheckDep ==
  /\ pc = "deps_loop"
  /\ LET dep == requiredDeps[depIdx]
         look == DepLookup(packageJson, dep)
     IN IF look.throws
        THEN /\ results' = DependenciesCaught(results, "TypeError")
             /\ pc' = AfterCheck("dependencies")
             /\ UNCHANGED depIdx
        ELSE /\ results' = Append(results, DependencyResult(dep, Truthy(look.value)))
             /\ depIdx' = IF depIdx = Len(requiredDeps) THEN depIdx ELSE depIdx + 1
             /\ pc' = IF depIdx = Len(requiredDeps) THEN "deps_nm" ELSE pc
  /\ UNCHANGED <<budget, parsedConfig, configFault, accessible, fileIdx, packageJson, child, output, errorOutput, closeCode, hpc,
                 resolved, diskConfig, configWritten, sourceCode, elemIdx, printed, exitCode,
                 deviations>>

\* fs.access of node_modules
ProbeNodeModules ==
  /\ pc = "deps_nm"
  /\ results' = Append(results, NodeModulesResult("node_modules" \in accessible))
  /\ pc' = AfterCheck("dependencies")
  /\ UNCHANGED <<budget, parsedConfig, configFault, accessible, fileIdx, packageJson, depIdx, child, output, errorOutput, closeCode,
                 hpc, resolved, diskConfig, configWritten, sourceCode, elemIdx, printed, exitCode,
                 deviations>>

(***************************************************************************)
(* testBuildProcess                                                        *)
(***************************************************************************)
\* a close handler that reports the stdout buffer instead of the stderr buffer
BuildResultStdout(code, distOk, stdoutText, stderrText) ==
  IF code = 0
  THEN IF distOk THEN TestResult(<<"Build process">>, TRUE, <<"(ok) Build successful">>)
       ELSE TestResult(<<"Build process">>, FALSE, <<"(x) Dist directory not created">>)
  ELSE TestResult(<<"Build process">>, FALSE, <<"(x) Build failed: ">> \o stdoutText)

\* the Result the close handler appends
BuildResult(code, distOk, stdoutText, stderrText) ==
  IF code = 0
  THEN IF distOk THEN TestResult(<<"Build process">>, TRUE, <<"(ok) Build successful">>)
       ELSE TestResult(<<"Build process">>, FALSE, <<"(x) Dist directory not created">>)
  ELSE TestResult(<<"Build process">>, FALSE, <<"(x) Build failed: ">> \o stderrText)

\* a close handler that does not await the dist probe before resolve()
ResolvesBeforeProbe(code) == TRUE

\* a close handler that calls resolve() only after the dist probe
ResolvesOnlyAfterProbe(code) == FALSE

\* whether the close handler reaches resolve() without suspending
ResolvesOnEntry(code) == code # 0

\* spawn starts the child; the promise executor registers the handlers
Spawn ==
  /\ pc = "build_spawn"
  /\ child' = "running"
  /\ pc' = "build_wait"
  /\ UNCHANGED <<budget, parsedConfig, configFault, results, accessible, fileIdx, packageJson, depIdx, output, errorOutput, closeCode,
                 hpc, resolved, diskConfig, configWritten, sourceCode, elemIdx, printed, exitCode,
                 deviations>>

\* spawn throws inside the promise executor: the promise rejects and the
\* await in runAllTests throws into its catch block
SpawnThrows ==
  /\ pc = "build_spawn"
  /\ Remaining >= 1
  /\ deviations' = deviations + 1
  /\ pc' = "catch"
  /\ UNCHANGED <<budget, parsedConfig, configFault, results, accessible, fileIdx, packageJson, depIdx, child, output, errorOutput,
                 closeCode, hpc, resolved, diskConfig, configWritten, sourceCode, elemIdx, printed,
                 exitCode>>

\* spawn cannot launch npm (ENOENT, EACCES): the child will emit 'error'
SpawnFails ==
  /\ pc = "build_spawn"
  /\ Remaining >= 1
  /\ deviations' = deviations + 1
  /\ child' = "failed"
  /\ pc' = "build_wait"
  /\ UNCHANGED <<budget, parsedConfig, configFault, results, accessible, fileIdx, packageJson, depIdx, output, errorOutput, closeCode,
                 hpc, resolved, diskConfig, configWritten, sourceCode, elemIdx, printed, exitCode>>

\* the 'error' event has no listener: the emitter throws, the exception is
\* uncaught and the process dies with exit code 1
ErrorEvent ==
  /\ child = "failed"
  /\ exitCode = NullCode
  /\ pc' = "crashed"
  /\ exitCode' = 1
  /\ child' = "none"
  /\ UNCHANGED <<budget, parsedConfig, configFault, results, accessible, fileIdx, packageJson, depIdx, output, errorOutput, closeCode,
                 hpc, resolved, diskConfig, configWritten, sourceCode, elemIdx, printed, deviations>>

\* the catch block of runAllTests
TopLevelCatch ==
  /\ pc = "catch"
  /\ pc' = "exited"
  /\ exitCode' = 1
  /\ UNCHANGED <<budget, parsedConfig, configFault, results, accessible, fileIdx, packageJson, depIdx, child, output, errorOutput,
                 closeCode, hpc, resolved, diskConfig, configWritten, sourceCode, elemIdx, printed,
                 deviations>>

\* buildProcess.stdout 'data'
StdoutData ==
  /\ child = "running"
  /\ exitCode = NullCode
  /\ Len(output) < MaxChunks
  /\ \E data \in StdoutChunks : output' = output \o <<data>>
  /\ UNCHANGED <<budget, parsedConfig, configFault, pc, results, accessible, fileIdx, packageJson, depIdx, child, errorOutput,
                 closeCode, hpc, resolved, diskConfig, configWritten, sourceCode, elemIdx, printed,
                 exitCode, deviations>>

\* buildProcess.stderr 'data'
StderrData ==
  /\ child = "running"
  /\ exitCode = NullCode
  /\ Len(errorOutput) < MaxChunks
  /\ \E data \in StderrChunks : errorOutput' = errorOutput \o <<data>>
  /\ UNCHANGED <<budget, parsedConfig, configFault, pc, results, accessible, fileIdx, packageJson, depIdx, child, output, closeCode,
                 hpc, resolved, diskConfig, configWritten, sourceCode, elemIdx, printed, exitCode,
                 deviations>>

\* the child ends: its streams are closed and 'close' is emitted with its code;
\* the build has or has not left a dist directory
ChildClose ==
  /\ child = "running"
  /\ exitCode = NullCode
  /\ \E code \in ExitCodes, dist \in BOOLEAN :
       LET cost == IF code = 0 /\ dist THEN 0 ELSE 1
       IN /\ cost <= Remaining
          /\ deviations' = deviations + cost
          /\ closeCode' = code
          /\ accessible' = IF dist THEN accessible \cup {"dist"} ELSE accessible \ {"dist"}
  /\ child' = "closed"
  /\ hpc' = "entered"
  /\ UNCHANGED <<budget, parsedConfig, configFault, pc, results, fileIdx, packageJson, depIdx, output, errorOutput, resolved,
                 diskConfig, configWritten, sourceCode, elemIdx, printed, exitCode>>

\* the close handler runs up to its first suspension or to its end
CloseHandler ==
  /\ hpc = "entered"
  /\ exitCode = NullCode
  /\ IF closeCode = 0
     THEN /\ hpc' = "probing"
          /\ resolved' = ResolvesOnEntry(closeCode)
          /\ UNCHANGED results
     ELSE /\ results' = Append(results, BuildResult(closeCode, FALSE, output, errorOutput))
          /\ resolved' = ResolvesOnEntry(closeCode)
          /\ hpc' = "done"
  /\ UNCHANGED <<budget, parsedConfig, configFault, pc, accessible, fileIdx, packageJson, depIdx, child, output, errorOutput,
                 closeCode, diskConfig, configWritten, sourceCode, elemIdx, printed, exitCode,
                 deviations>>

\* the close handler resumes after fs.access of dist
DistProbe ==
  /\ hpc = "probing"
  /\ exitCode = NullCode
  /\ results' = Append(results, BuildResult(closeCode, "dist" \in accessible, output, errorOutput))
  /\ resolved' = TRUE
  /\ hpc' = "done"
  /\ UNCHANGED <<budget, parsedConfig, configFault, pc, accessible, fileIdx, packageJson, depIdx, child, output, errorOutput,
                 closeCode, diskConfig, configWritten, sourceCode, elemIdx, printed, exitCode,
                 deviations>>

\* runAllTests resumes from await this.testBuildProcess()
BuildReturns ==
  /\ pc = "build_wait"
  /\ resolved
  /\ pc' = AfterCheck("build")
  /\ UNCHANGED <<budget, parsedConfig, configFault, results, accessible, fileIdx, packageJson, depIdx, child, output, errorOutput,
                 closeCode, hpc, resolved, diskConfig, configWritten, sourceCode, elemIdx, printed,
                 exitCode, deviations>>

(***************************************************************************)
(* testConfigurationHandling                                               *)
(***************************************************************************)
\* the catch block of testConfigurationHandling
ConfigCaught(log, error) ==
  addResult(log, <<"Configuration handling">>, FALSE, <<"(x) Configuration test failed: ", error>>)

\* a comparison of the whole read-back object with the written object
ConfigReadResultStructural(parsed) ==
  IF parsed = testConfig
  THEN TestResult(<<"Configuration - Read">>, TRUE, <<"(ok) Config file read correctly">>)
  ELSE TestResult(<<"Configuration - Read">>, FALSE, <<"(x) Config data mismatch">>)

\* the Result of the comparison of the read-back field with the written one
ConfigReadResult(parsed) ==
  IF Get(parsed, "geminiApiKey") = Get(testConfig, "geminiApiKey")
  THEN TestResult(<<"Configuration - Read">>, TRUE, <<"(ok) Config file read correctly">>)
  ELSE TestResult(<<"Configuration - Read">>, FALSE, <<"(x) Config data mismatch">>)

\* a check that runs its cleanup after a caught read fault
AfterConfigReadFaultCleanup == "config_unlink"

\* where the check continues when readFile or JSON.parse or the comparison throws
AfterConfigReadFault == AfterCheck("config")

\* fs.writeFile of the synthetic config succeeds
WriteConfig ==
  /\ pc = "config_write"
  /\ accessible' = accessible \cup {configPath}
  /\ diskConfig' = JSONstringify(testConfig, 2)
  /\ configWritten' = TRUE
  /\ results' = addResult(results, <<"Configuration - Write">>, TRUE, <<"(ok) Config file written">>)
  /\ pc' = "config_read"
  /\ UNCHANGED <<budget, parsedConfig, configFault, fileIdx, packageJson, depIdx, child, output, errorOutput, closeCode, hpc, resolved,
                 sourceCode, elemIdx, printed, exitCode, deviations>>

\* fs.writeFile raises a fault; the file may have been created empty
WriteConfigFault ==
  /\ pc = "config_write"
  /\ Remaining >= 1
  /\ deviations' = deviations + 1
  /\ configFault' = "write"
  /\ \E created \in BOOLEAN :
       /\ accessible' = IF created THEN accessible \cup {configPath} ELSE accessible
       /\ diskConfig' = <<>>
  /\ results' = ConfigCaught(results, "Error: ENOSPC")
  /\ pc' = AfterCheck("config")
  /\ UNCHANGED <<budget, parsedConfig, fileIdx, packageJson, depIdx, child, output, errorOutput, closeCode, hpc, resolved,
                 configWritten, sourceCode, elemIdx, printed, exitCode>>

\* fs.readFile of the synthetic config raises a fault
ReadConfigFault ==
  /\ pc = "config_read"
  /\ Remaining >= 1
  /\ deviations' = deviations + 1
  /\ configFault' = "read"
  /\ results' = ConfigCaught(results, "Error: EACCES")
  /\ pc' = AfterConfigReadFault
  /\ UNCHANGED <<budget, parsedConfig, accessible, fileIdx, packageJson, depIdx, child, output, errorOutput, closeCode,
                 hpc, resolved, diskConfig, configWritten, sourceCode, elemIdx, printed, exitCode>>

\* fs.readFile succeeds, on what was written or on what another process put
\* there; JSON.parse and the comparison follow
ReadConfig ==
  /\ pc = "config_read"
  /\ \E configData \in {diskConfig} \cup TamperedConfigs :
       LET cost == IF configData = diskConfig THEN 0 ELSE 1
           parsed == JSONparse(configData)
       IN /\ cost <= Remaining
          /\ deviations' = deviations + cost
          /\ diskConfig' = configData
          /\ parsedConfig' = parsed.v
          /\ IF ~parsed.ok
             THEN /\ results' = ConfigCaught(results, "SyntaxError")
                  /\ pc' = AfterConfigReadFault
             ELSE IF GetThrows(parsed.v)
             THEN /\ results' = ConfigCaught(results, "TypeError")
                  /\ pc' = AfterConfigReadFault
             ELSE /\ results' = Append(results, ConfigReadResult(parsed.v))
                  /\ pc' = "config_unlink"
  /\ UNCHANGED <<budget, configFault, accessible, fileIdx, packageJson, depIdx, child, output, errorOutput, closeCode,
                 hpc, resolved, configWritten, sourceCode, elemIdx, printed, exitCode>>

\* fs.unlink of the synthetic config succeeds
UnlinkConfig ==
  /\ pc = "config_unlink"
  /\ accessible' = accessible \ {configPath}
  /\ diskConfig' = <<>>
  /\ results' = addResult(results, <<"Configuration - Cleanup">>, TRUE, <<"(ok) Test config cleaned up">>)
  /\ pc' = AfterCheck("config")
  /\ UNCHANGED <<budget, parsedConfig, configFault, fileIdx, packageJson, depIdx, child, output, errorOutput, closeCode, hpc, resolved,
                 configWritten, sourceCode, elemIdx, printed, exitCode, deviations>>

\* fs.unlink raises a fault and the file stays
UnlinkConfigFault ==
  /\ pc = "config_unlink"
  /\ Remaining >= 1
  /\ deviations' = deviations + 1
  /\ configFault' = "unlink"
  /\ results' = ConfigCaught(results, "Error: EPERM")
  /\ pc' = AfterCheck("config")
  /\ UNCHANGED <<budget, parsedConfig, accessible, fileIdx, packageJson, depIdx, child, output, errorOutput, closeCode,
                 hpc, resolved, diskConfig, configWritten, sourceCode, elemIdx, printed, exitCode>>

(***************************************************************************)
(* testToolSchema                                                          *)
(***************************************************************************)
\* the catch block of testToolSchema
SchemaCaught(log, error) ==
  addResult(log, <<"Tool Schema validation">>, FALSE, <<"(x) Schema test failed: ", error>>)

\* the Result of one iteration of the loop over requiredElements
ElementResult(element, found) ==
  IF found THEN TestResult(<<"Tool Schema - ", element>>, TRUE, <<"(ok) ", element, " found">>)
  ELSE TestResult(<<"Tool Schema - ", element>>, FALSE, <<"(x) ", element, " missing">>)

\* hasMimeTypeLogic without its third alternative
hasMimeTypeLogicTwo(text) ==
  includes(text, "getMimeType") \/ includes(text, "image/jpeg")

\* hasMimeTypeLogic
hasMimeTypeLogic(text) ==
  includes(text, "getMimeType") \/ includes(text, "image/jpeg") \/ includes(text, "image/png")

\* the Result of the MIME type test
MimeResult(has) ==
  TestResult(<<"MIME type handling">>, has,
             IF has THEN <<"(ok) MIME type logic found">> ELSE <<"(x) MIME type logic missing">>)

\* fs.readFile of src/index.ts raises a fault
ReadSourceFault ==
  /\ pc = "schema_read"
  /\ \/ /\ "src/index.ts" \notin accessible
        /\ results' = SchemaCaught(results, "Error: ENOENT")
        /\ UNCHANGED deviations
     \/ /\ "src/index.ts" \in accessible
        /\ Remaining >= 1
        /\ results' = SchemaCaught(results, "Error: EACCES")
        /\ deviations' = deviations + 1
  /\ pc' = AfterCheck("schema")
  /\ UNCHANGED <<budget, parsedConfig, configFault, accessible, fileIdx, packageJson, depIdx, child, output, errorOutput, closeCode,
                 hpc, resolved, diskConfig, configWritten, sourceCode, elemIdx, printed, exitCode>>

\* fs.readFile of src/index.ts succeeds
ReadSource ==
  /\ pc = "schema_read"
  /\ "src/index.ts" \in accessible
  /\ \E missing \in SUBSET SourceFragments :
       /\ Cardinality(missing) <= Remaining
       /\ deviations' = deviations + Cardinality(missing)
       /\ sourceCode' = SourceWithout(missing)
  /\ elemIdx' = 1
  /\ pc' = "schema_loop"
  /\ UNCHANGED <<budget, parsedConfig, configFault, results, accessible, fileIdx, packageJson, depIdx, child, output, errorOutput,
                 closeCode, hpc, resolved, diskConfig, configWritten, printed, exitCode>>

\* one iteration of the loop over requiredElements
CheckElement ==
  /\ pc = "schema_loop"
  /\ LET element == requiredElements[elemIdx]
     IN results' = Append(results, ElementResult(element, includes(sourceCode, element)))
  /\ elemIdx' = IF elemIdx = Len(requiredElements) THEN elemIdx ELSE elemIdx + 1
  /\ pc' = IF elemIdx = Len(requiredElements) THEN "schema_mime" ELSE pc
  /\ UNCHANGED <<budget, parsedConfig, configFault, accessible, fileIdx, packageJson, depIdx, child, output, errorOutput, closeCode,
                 hpc, resolved, diskConfig, configWritten, sourceCode, printed, exitCode,
                 deviations>>

\* the MIME type test
CheckMime ==
  /\ pc = "schema_mime"
  /\ results' = Append(results, MimeResult(hasMimeTypeLogic(sourceCode)))
  /\ pc' = AfterCheck("schema")
  /\ UNCHANGED <<budget, parsedConfig, configFault, accessible, fileIdx, packageJson, depIdx, child, output, errorOutput, closeCode,
                 hpc, resolved, diskConfig, configWritten, sourceCode, elemIdx, printed, exitCode,
                 deviations>>

(***************************************************************************)
(* printResults and the end of the process                                 *)
(***************************************************************************)
IsPassed(r) == r.passed

\* this.results.filter(r => !r.passed).length
PassedCountNegated(log) == Len(log) - Len(SelectSeq(log, IsPassed))

\* this.results.filter(r => r.passed).length
PassedCount(log) == Len(SelectSeq(log, IsPassed))

\* a success test that tolerates one failing Result
ReportsSuccessOffByOne(passed, total) == passed >= total - 1

\* the branch of printResults that returns without process.exit(1)
ReportsSuccess(passed, total) == passed = total

\* printResults prints the summary and, on a failure, calls process.exit(1)
PrintResults ==
  /\ pc = "report"
  /\ LET passed == PassedCount(results)
         total == Len(results)
     IN /\ printed' = [passed |-> passed, total |-> total]
        /\ IF ReportsSuccess(passed, total)
           THEN /\ pc' = "returned"
                /\ UNCHANGED exitCode
           ELSE /\ pc' = "exited"
                /\ exitCode' = 1
  /\ UNCHANGED <<budget, parsedConfig, configFault, results, accessible, fileIdx, packageJson, depIdx, child, output, errorOutput,
                 closeCode, hpc, resolved, diskConfig, configWritten, sourceCode, elemIdx,
                 deviations>>

\* runAllTests has returned and nothing is pending: the process ends with code 0
ProcessEnds ==
  /\ pc = "returned"
  /\ pc' = "exited"
  /\ exitCode' = 0
  /\ UNCHANGED <<budget, parsedConfig, configFault, results, accessible, fileIdx, packageJson, depIdx, child, output, errorOutput,
                 closeCode, hpc, resolved, diskConfig, configWritten, sourceCode, elemIdx, printed,
                 deviations>>

Next ==
  \/ ProbeFile
  \/ ReadManifestFault
  \/ ReadManifest
  \/ CheckDep
  \/ ProbeNodeModules
  \/ Spawn
  \/ SpawnThrows
  \/ SpawnFails
  \/ ErrorEvent
  \/ TopLevelCatch
  \/ StdoutData
  \/ StderrData
  \/ ChildClose
  \/ CloseHandler
  \/ DistProbe
  \/ BuildReturns
  \/ WriteConfig
  \/ WriteConfigFault
  \/ ReadConfigFault
  \/ ReadConfig
  \/ UnlinkConfig
  \/ UnlinkConfigFault
  \/ ReadSourceFault
  \/ ReadSource
  \/ CheckElement
  \/ CheckMime
  \/ PrintResults
  \/ ProcessEnds

Spec == Init /\ [][Next]_vars

(***************************************************************************)
(* Vocabulary of the properties.                                           *)
(***************************************************************************)
\* the check that produced a Result, read off its name
CheckOf(r) ==
  CASE r.name[1] = "Project structure - " -> "structure"
    [] r.name[1] \in {"Dependencies - ", "Dependencies - node_modules", "Dependencies check"} -> "dependencies"
    [] r.name[1] = "Build process" -> "build"
    [] r.name[1] \in {"Configuration - Write", "Configuration - Read", "Configuration - Cleanup",
                      "Configuration handling"} -> "config"
    [] r.name[1] \in {"Tool Schema - ", "MIME type handling", "Tool Schema validation"} -> "schema"

\* the Results one check contributed to the log, in log order
ResultsOf(check) ==
  LET Mine(r) == CheckOf(r) = check IN SelectSeq(results, Mine)

NamesOf(log) == [i \in DOMAIN log |-> log[i].name]

\* printResults has run
Reported == printed.total >= 0

\* the position of runAllTests is after the named check
PastDependencies == pc \notin {"structure", "deps_read", "deps_loop", "deps_nm"}

PastConfig == pc \in {"schema_read", "schema_loop", "schema_mime", "report", "returned"} \/ Reported

PastSchema == pc \in {"report", "returned"} \/ Reported

\* text occurs in message as a run of consecutive fragments
Contains(message, text) ==
  \E i \in 1..(Len(message) + 1) :
    /\ i + Len(text) - 1 <= Len(message)
    /\ SubSeq(message, i, i + Len(text) - 1) = text

(***************************************************************************)
(* C1: once printResults has run and the process has ended, the exit code  *)
(* is 0 exactly when every Result of the log has passed; when some Result  *)
(* has failed the exit code is 1 and the printed passed count is strictly  *)
(* less than the printed total.                                            *)
(***************************************************************************)
C1_ExitCodeIffAllPassed ==
  (Reported /\ exitCode # NullCode) =>
    /\ printed.total = Len(results)
    /\ (exitCode = 0) <=> (\A i \in DOMAIN results : results[i].passed)
    /\ (\E i \in DOMAIN results : ~results[i].passed) =>
          (exitCode = 1 /\ printed.passed < printed.total)

\* a finished run with a single failing Result
C1_Witness ==
  /\ Reported
  /\ exitCode = 1
  /\ Cardinality({i \in DOMAIN results : ~results[i].passed}) = 1

\* a finished run without any failing Result
C1_WitnessAllPassed ==
  /\ Reported
  /\ exitCode = 0
  /\ \A i \in DOMAIN results : results[i].passed

(***************************************************************************)
(* C2: no fault inside a check escapes it: runAllTests never enters its    *)
(* catch block, the process never dies of an uncaught exception, and the   *)
(* process never ends without printResults having run.                     *)
(***************************************************************************)
C2_NoFaultEscapes ==
  /\ pc \notin {"catch", "crashed"}
  /\ exitCode # NullCode => Reported

(***************************************************************************)
(* C3: when the config check has returned after a successful write, along  *)
(* the match, mismatch, read fault or parse fault path (every path but the *)
(* one where the delete itself faults), the synthetic file is not on disk. *)
(***************************************************************************)
C3_SyntheticFileRemoved ==
  (PastConfig /\ configWritten /\ configFault # "unlink") => configPath \notin accessible

(***************************************************************************)
(* C4: when a file system operation of the config check has raised a       *)
(* fault, the Results of that check are exactly one failing                *)
(* 'Configuration handling' Result and nothing else.                       *)
(***************************************************************************)
C4_OneAggregateOnly ==
  (PastConfig /\ configFault # "none") =>
    LET cr == ResultsOf("config")
    IN /\ Len(cr) = 1
       /\ cr[1].name = <<"Configuration handling">>
       /\ ~cr[1].passed

\* a finished config check whose read raised a fault after a successful write
C3_WitnessReadFault == PastConfig /\ configWritten /\ configFault = "read"

(***************************************************************************)
(* C4, amended: when a file system operation of the config check has       *)
(* raised a fault, the check has contributed exactly one failing           *)
(* 'Configuration handling' Result, as its last Result, and no             *)
(* 'Configuration - Cleanup'; the sub-results appended before the fault    *)
(* stay: none after a write fault, 'Configuration - Write' after a read    *)
(* fault, 'Configuration - Write' and 'Configuration - Read' after a       *)
(* delete fault.                                                           *)
(***************************************************************************)
C4_AggregateAfterCompletedSteps ==
  (PastConfig /\ configFault # "none") =>
    LET cr == ResultsOf("config")
    IN /\ NamesOf(cr) =
            CASE configFault = "write" -> << <<"Configuration handling">> >>
              [] configFault = "read" -> << <<"Configuration - Write">>, <<"Configuration handling">> >>
              [] configFault = "unlink" -> << <<"Configuration - Write">>, <<"Configuration - Read">>,
                                              <<"Configuration handling">> >>
       /\ ~cr[Len(cr)].passed
       /\ Len(cr) >= 2 => cr[1].passed

\* a finished config check whose read raised a fault
C4_Witness == PastConfig /\ configFault = "read" /\ Len(ResultsOf("config")) = 2

(***************************************************************************)
(* The log of the fully valid run.                                         *)
(***************************************************************************)
ValidStructure ==
  [i \in 1..6 |-> TestResult(<<"Project structure - ", requiredFiles[i]>>, TRUE,
                             <<"(ok) ", requiredFiles[i], " exists">>)]

ValidDependencies ==
  [i \in 1..4 |-> TestResult(<<"Dependencies - ", requiredDeps[i]>>, TRUE,
                             <<"(ok) ", requiredDeps[i], " found">>)]
  \o <<TestResult(<<"Dependencies - node_modules">>, TRUE, <<"(ok) Dependencies installed">>)>>

ValidBuild == <<TestResult(<<"Build process">>, TRUE, <<"(ok) Build successful">>)>>

ValidConfig ==
  <<TestResult(<<"Configuration - Write">>, TRUE, <<"(ok) Config file written">>),
    TestResult(<<"Configuration - Read">>, TRUE, <<"(ok) Config file read correctly">>),
    TestResult(<<"Configuration - Cleanup">>, TRUE, <<"(ok) Test config cleaned up">>)>>

ValidSchema ==
  [i \in 1..6 |-> TestResult(<<"Tool Schema - ", requiredElements[i]>>, TRUE,
                             <<"(ok) ", requiredElements[i], " found">>)]
  \o <<TestResult(<<"MIME type handling">>, TRUE, <<"(ok) MIME type logic found">>)>>

ValidLog == ValidStructure \o ValidDependencies \o ValidBuild \o ValidConfig \o ValidSchema

MissingStructure(k) ==
  TestResult(<<"Project structure - ", requiredFiles[k]>>, FALSE, <<"(x) ", requiredFiles[k], " missing">>)

\* the run is complete and its only departure from the valid project is
\* the absence of required file k
OnlyFileAbsent(k) ==
  /\ PastSchema
  /\ deviations = 1
  /\ ProjectPaths \ accessible = {requiredFiles[k]}

\* the log differs from the log of the valid run in the Result of file k only
DiffersInStructureResultOnly(k) ==
  /\ Len(results) = Len(ValidLog)
  /\ {i \in DOMAIN results : results[i] # ValidLog[i]} = {k}
  /\ results[k] = MissingStructure(k)

(***************************************************************************)
(* C5: for every required file, the run in which only that file is absent  *)
(* differs from the fully valid run in exactly one Result, the failing     *)
(* structure Result of that file.                                          *)
(***************************************************************************)
C5_OneFileOneResult ==
  \A k \in DOMAIN requiredFiles : OnlyFileAbsent(k) => DiffersInStructureResultOnly(k)

\* name and verdict of every Result of a log
Brief(log) == [i \in DOMAIN log |-> [name |-> log[i].name, passed |-> log[i].passed]]

(***************************************************************************)
(* C5, amended: for every required file other than package.json and        *)
(* src/index.ts, the run in which only that file is absent (the build      *)
(* still exiting 0 with dist present) differs from the fully valid run in  *)
(* exactly one Result, the failing structure Result of that file.  When    *)
(* package.json is the absent file, the dependencies check in addition     *)
(* contributes the single failing 'Dependencies check' in place of its     *)
(* five Results; when src/index.ts is the absent file, the schema check in *)
(* addition contributes the single failing 'Tool Schema validation' in     *)
(* place of its seven Results; every other Result is that of the valid run.*)
(***************************************************************************)
C5_OneFileOneResultUnlessReadLater ==
  \A k \in DOMAIN requiredFiles :
    OnlyFileAbsent(k) =>
      IF requiredFiles[k] = "package.json"
      THEN Brief(results) =
             Brief([ValidStructure EXCEPT ![k] = MissingStructure(k)]
                   \o <<TestResult(<<"Dependencies check">>, FALSE, <<>>)>>
                   \o ValidBuild \o ValidConfig \o ValidSchema)
      ELSE IF requiredFiles[k] = "src/index.ts"
      THEN Brief(results) =
             Brief([ValidStructure EXCEPT ![k] = MissingStructure(k)]
                   \o ValidDependencies \o ValidBuild \o ValidConfig
                   \o <<TestResult(<<"Tool Schema validation">>, FALSE, <<>>)>>)
      ELSE DiffersInStructureResultOnly(k)

\* a complete run in which only README.md is absent
C5_Witness == OnlyFileAbsent(4) /\ Reported

(***************************************************************************)
(* C6: when the manifest could not be read or parsed (packageJson was      *)
(* never assigned) or parsed to a value without a "dependencies" key, the  *)
(* dependencies check has contributed exactly one Result, the failing      *)
(* 'Dependencies check', and neither a per-dependency nor a node_modules   *)
(* Result.                                                                 *)
(***************************************************************************)
HasDependenciesKey(v) == v.t = "obj" /\ "dependencies" \in DOMAIN v.m

C6_OneAggregateResult ==
  (PastDependencies /\ ~HasDependenciesKey(packageJson)) =>
    LET dr == ResultsOf("dependencies")
    IN /\ Len(dr) = 1
       /\ dr[1].name = <<"Dependencies check">>
       /\ ~dr[1].passed

\* a finished dependencies check on a manifest object without the key
C6_Witness ==
  /\ PastDependencies
  /\ packageJson.t = "obj"
  /\ "dependencies" \notin DOMAIN packageJson.m

(***************************************************************************)
(* C7: the Build Runner never appends more than one Result, and once its   *)
(* promise is resolved it has appended exactly one, fixed by the close     *)
(* event: code 0 with dist present gives a passing Result, code 0 with     *)
(* dist absent the failing 'Dist directory not created', any other code a  *)
(* failing Result whose message contains the collected stderr text and is  *)
(* not the dist-absent message.                                            *)
(***************************************************************************)
C7_BuildResultByExit ==
  LET br == ResultsOf("build")
  IN /\ Len(br) <= 1
     /\ resolved =>
          /\ Len(br) = 1
          /\ br[1].name = <<"Build process">>
          /\ (closeCode = 0 /\ "dist" \in accessible) => br[1].passed
          /\ (closeCode = 0 /\ "dist" \notin accessible) =>
                (~br[1].passed /\ br[1].message = <<"(x) Dist directory not created">>)
          /\ closeCode # 0 =>
                /\ ~br[1].passed
                /\ Contains(br[1].message, errorOutput)
                /\ br[1].message[1] = "(x) Build failed: "
                /\ br[1].message # <<"(x) Dist directory not created">>

\* a build that failed after writing to stderr only, its Result appended
C7_Witness ==
  /\ resolved
  /\ closeCode = 1
  /\ errorOutput # <<>>
  /\ output = <<>>

(***************************************************************************)
(* C8: the log is grouped by check in the order structure, dependencies,   *)
(* build, config, schema: a Result of an earlier check never follows a     *)
(* Result of a later check.                                                *)
(***************************************************************************)
Rank(check) ==
  CASE check = "structure" -> 1
    [] check = "dependencies" -> 2
    [] check = "build" -> 3
    [] check = "config" -> 4
    [] check = "schema" -> 5

\* stated on neighbours: ranks that never decrease from one Result to the
\* next never decrease between any earlier and any later Result
C8_GroupedInCheckOrder ==
  \A i \in 1..(Len(results) - 1) :
    Rank(CheckOf(results[i])) <= Rank(CheckOf(results[i + 1]))

\* a complete log with Results of all five checks
C8_Witness ==
  /\ pc = "report"
  /\ \A c \in {"structure", "dependencies", "build", "config", "schema"} : Len(ResultsOf(c)) >= 1

(***************************************************************************)
(* C9: when testToolSchema has read a text, it has appended seven Results; *)
(* the Result of a required identifier passes exactly when the text        *)
(* contains it, and the MIME Result passes exactly when the text contains  *)
(* one of the three alternatives.  So a text with all six identifiers and  *)
(* one alternative gives seven passing Results, and a text lacking exactly *)
(* one identifier gives that Result failing and the other six as before.   *)
(***************************************************************************)
SchemaRan == PastSchema /\ sourceCode # <<>>

MissingElements == {k \in DOMAIN requiredElements : requiredElements[k] \notin Range(sourceCode)}

HasMimeEvidence == Range(mimeAlternatives) \cap Range(sourceCode) # {}

C9_SchemaResults ==
  SchemaRan =>
    LET sr == ResultsOf("schema")
    IN /\ Len(sr) = 7
       /\ \A k \in 1..6 :
            /\ sr[k].name = <<"Tool Schema - ", requiredElements[k]>>
            /\ sr[k].passed <=> k \notin MissingElements
            /\ k \notin MissingElements => sr[k] = ValidSchema[k]
       /\ sr[7].name = <<"MIME type handling">>
       /\ sr[7].passed <=> HasMimeEvidence
       /\ HasMimeEvidence => sr[7] = ValidSchema[7]
       /\ (MissingElements = {} /\ HasMimeEvidence) => sr = ValidSchema
       /\ \A k \in 1..6 :
            (MissingElements = {k} /\ HasMimeEvidence) =>
               {i \in 1..7 : sr[i] # ValidSchema[i]} = {k}

\* a finished schema check on a text lacking exactly one required identifier
C9_Witness ==
  /\ SchemaRan
  /\ Cardinality(MissingElements) = 1
  /\ HasMimeEvidence

\* a finished schema check on a text with image/png as its only MIME evidence
C9_WitnessOneAlternative ==
  /\ SchemaRan
  /\ Range(mimeAlternatives) \cap Range(sourceCode) = {"image/png"}

(***************************************************************************)
(* C10: the config check is not entered and no config or schema Result is  *)
(* in the log unless the build child has closed, the close handler has     *)
(* finished and the build Result is in the log before them; the promise of *)
(* testBuildProcess is resolved only with the build Result in the log.     *)
(***************************************************************************)
InConfigOrLater ==
  \/ pc \in {"config_write", "config_read", "config_unlink", "schema_read", "schema_loop",
             "schema_mime", "report", "returned"}
  \/ \E i \in DOMAIN results : CheckOf(results[i]) \in {"config", "schema"}

C10_ConfigAfterBuildResult ==
  /\ InConfigOrLater =>
       /\ child = "closed"
       /\ hpc = "done"
       /\ \E b \in DOMAIN results :
            /\ CheckOf(results[b]) = "build"
            /\ \A i \in DOMAIN results : CheckOf(results[i]) \in {"config", "schema"} => b < i
  /\ resolved => \E b \in DOMAIN results : CheckOf(results[b]) = "build"

\* the config check is entered after a close handler that suspended on the dist probe
C10_Witness ==
  /\ pc = "config_write"
  /\ closeCode = 0
  /\ hpc = "done"

(***************************************************************************)
(* Progress.  The event loop runs every continuation that is ready, so the *)
(* steps of the harness are weakly fair; the build child owes nothing: it  *)
(* may write and close, or stay silent for ever.                           *)
(***************************************************************************)
HarnessStep ==
  \/ ProbeFile
  \/ ReadManifestFault
  \/ ReadManifest
  \/ CheckDep
  \/ ProbeNodeModules
  \/ Spawn
  \/ SpawnThrows
  \/ SpawnFails
  \/ ErrorEvent
  \/ TopLevelCatch
  \/ CloseHandler
  \/ DistProbe
  \/ BuildReturns
  \/ WriteConfig
  \/ WriteConfigFault
  \/ ReadConfigFault
  \/ ReadConfig
  \/ UnlinkConfig
  \/ UnlinkConfigFault
  \/ ReadSourceFault
  \/ ReadSource
  \/ CheckElement
  \/ CheckMime
  \/ PrintResults
  \/ ProcessEnds

FairInit == InitWith(MaxFairDeviations)

FairSpec == FairInit /\ [][Next]_vars /\ WF_vars(HarnessStep)

(***************************************************************************)
(* C11: once the build child has emitted close, printResults eventually    *)
(* runs and the process eventually exits; and as long as the child has not *)
(* closed, no config or schema Result is in the log and printResults has   *)
(* not run, so a child that never closes blocks the harness for ever.      *)
(***************************************************************************)
C11_CloseLeadsToExit ==
  /\ (child = "closed") ~> (Reported /\ exitCode # NullCode)
  /\ [](child # "closed" =>
          /\ ~Reported
          /\ \A i \in DOMAIN results : CheckOf(results[i]) \notin {"config", "schema"})

\* the process has exited through printResults after a build that failed
C11_Witness ==
  /\ child = "closed"
  /\ closeCode # 0
  /\ Reported
  /\ exitCode # NullCode

(***************************************************************************)
(* C12: when the manifest parsed to an object whose "dependencies" is a    *)
(* mapping, the dependencies check has contributed five Results: one per   *)
(* required dependency in list order, passing exactly when the name is a   *)
(* key of the mapping whatever string it maps to, then the node_modules    *)
(* Result, passing exactly when node_modules is accessible.                *)
(***************************************************************************)
HasDependenciesMapping(v) ==
  /\ v.t = "obj"
  /\ "dependencies" \in DOMAIN v.m
  /\ v.m["dependencies"].t = "obj"

C12_PassesIffKeyPresent ==
  (PastDependencies /\ HasDependenciesMapping(packageJson)) =>
    LET dr == ResultsOf("dependencies")
        keys == DOMAIN packageJson.m["dependencies"].m
    IN /\ Len(dr) = 5
       /\ \A k \in 1..4 :
            /\ dr[k].name = <<"Dependencies - ", requiredDeps[k]>>
            /\ dr[k].passed <=> requiredDeps[k] \in keys
       /\ dr[5].name = <<"Dependencies - node_modules">>
       /\ dr[5].passed <=> "node_modules" \in accessible

\* a finished dependencies check on a manifest that maps zod to the empty string
C12_WitnessEmptyVersion ==
  /\ PastDependencies
  /\ HasDependenciesMapping(packageJson)
  /\ "zod" \in DOMAIN packageJson.m["dependencies"].m
  /\ packageJson.m["dependencies"].m["zod"] = JStr("")

(***************************************************************************)
(* C13: when the config check has returned without any fault (write, read, *)
(* parse, field access and delete all succeeded), it has contributed       *)
(* exactly the three Results write, read/compare, cleanup in that order;   *)
(* write and cleanup pass, read/compare passes exactly when the read-back  *)
(* geminiApiKey equals the written one, and the file has been deleted also *)
(* after a mismatch.                                                       *)
(***************************************************************************)
ConfigRanWithoutFault ==
  /\ PastConfig
  /\ configWritten
  /\ configFault = "none"
  /\ parsedConfig.t \notin {"undefined", "null"}

C13_ThreeResultsInOrder ==
  ConfigRanWithoutFault =>
    LET cr == ResultsOf("config")
    IN /\ NamesOf(cr) = << <<"Configuration - Write">>, <<"Configuration - Read">>,
                           <<"Configuration - Cleanup">> >>
       /\ cr[1].passed
       /\ cr[3].passed
       /\ cr[2].passed <=>
            (/\ parsedConfig.t = "obj"
             /\ "geminiApiKey" \in DOMAIN parsedConfig.m
             /\ parsedConfig.m["geminiApiKey"] = JStr("test-api-key-for-integration-testing"))
       /\ configPath \notin accessible

\* a finished config check that read back another key
C13_Witness ==
  /\ ConfigRanWithoutFault
  /\ parsedConfig = JObj([geminiApiKey |-> JStr("another-key")])

\* a finished config check that read back the written key next to another field
C13_WitnessExtraField ==
  /\ ConfigRanWithoutFault
  /\ parsedConfig.t = "obj"
  /\ DOMAIN parsedConfig.m = {"geminiApiKey", "model"}

(***************************************************************************)
(* C14: the process ends only in a step of printResults (or on its return) *)
(* after all five checks, or in the catch block of runAllTests with code   *)
(* 1; it never ends while a check is running.                              *)
(***************************************************************************)
C14_ExitOnlyByReporterOrCatch ==
  [][(exitCode = NullCode /\ exitCode' # NullCode) =>
       \/ pc \in {"report", "returned"}
       \/ pc = "catch" /\ exitCode' = 1]_vars

(***************************************************************************)
(* C15: the log is empty at the start and every step leaves it unchanged   *)
(* or extends it by one Result at its end, so every earlier log is a       *)
(* prefix of every later one.                                              *)
(***************************************************************************)
C15_AppendOnly ==
  /\ results = <<>>
  /\ [][\/ results' = results
        \/ /\ Len(results') = Len(results) + 1
           /\ SubSeq(results', 1, Len(results)) = results]_vars

\* the complete log of a run with an aggregate Result
C15_Witness ==
  /\ pc = "report"
  /\ \E i \in DOMAIN results : results[i].name = <<"Configuration handling">>

(***************************************************************************)
(* C16: while the Filesystem Probe runs it has appended one Result per     *)
(* path probed so far, and once it has returned it has contributed exactly *)
(* six Results, one per required path in list order, each passing exactly  *)
(* when its path is accessible; a missing path does not end the loop.      *)
(***************************************************************************)
C16_SixStructureResults ==
  LET sr == ResultsOf("structure")
  IN /\ pc = "structure" => Len(sr) = fileIdx - 1
     /\ pc # "structure" => Len(sr) = 6
     /\ \A k \in DOMAIN sr :
          /\ sr[k].name = <<"Project structure - ", requiredFiles[k]>>
          /\ sr[k].passed <=> requiredFiles[k] \in accessible

\* a returned probe whose first path was missing
C16_Witness ==
  /\ pc = "deps_read"
  /\ "package.json" \notin accessible

(***************************************************************************)
(* C17: when printResults runs the log holds 6 structure Results, 1 or 5   *)
(* dependencies Results, 1 build Result, 1 to 3 config Results and 1 or 7  *)
(* schema Results, 10 to 22 in all; a log without a failing Result holds   *)
(* exactly 22 and the summary reads 22/22.                                 *)
(***************************************************************************)
C17_ResultCounts ==
  (pc = "report" \/ Reported) =>
    /\ Len(ResultsOf("structure")) = 6
    /\ Len(ResultsOf("dependencies")) \in {1, 5}
    /\ Len(ResultsOf("build")) = 1
    /\ Len(ResultsOf("config")) \in 1..3
    /\ Len(ResultsOf("schema")) \in {1, 7}
    /\ Len(results) \in 10..22
    /\ (\A i \in DOMAIN results : results[i].passed) =>
          /\ Len(results) = 22
          /\ Reported => printed = [passed |-> 22, total |-> 22]
    /\ deviations = 0 => Brief(results) = Brief(ValidLog)

\* the summary 22/22 has been printed
C17_Witness ==
  /\ Reported
  /\ printed = [passed |-> 22, total |-> 22]

\* printResults has run on the shortest log
C17_WitnessShortest ==
  /\ Reported
  /\ printed.total = 10

====
